---------------------------- MODULE Spec2Model ----------------------------
(***************************************************************************)
(* Model of simulate.py: the sweep function run_fba_with_enhancement and    *)
(* the script around it (sweep call, Native call, estimate fallback,        *)
(* output, top-5 flux changes).                                             *)
(*                                                                          *)
(* Numbers.  Python floats are modelled exactly on the values used here:    *)
(*  - factors and multipliers are fixed point, FactorUnit units per 1.0     *)
(*    (every factor of the model is a dyadic float, so products with it     *)
(*    and its formatting are exact in IEEE arithmetic as well);             *)
(*  - upper bounds are normalised rationals <<num, den>>, den > 0;          *)
(*  - fluxes and result fields are fixed point, FluxUnit units per 1.0.     *)
(* The LP solver (model.optimize) is external: its status and flux vector   *)
(* are a nondeterministic choice from SolverOutcomes.                       *)
(***************************************************************************)
EXTENDS Integers, Sequences, FiniteSets, TLC

\* ------------------------------------------------------------------ bounds
\* Longest factor sequence handed to run_fba_with_enhancement in SpecFn.
MaxLen == 3

\* ----------------------------------------------------------------- numbers
\* Fixed-point unit of factors and multipliers: 1.0 is FactorUnit.
FactorUnit == 32
\* Fixed-point unit of fluxes and result fields: 1.0 is FluxUnit.
FluxUnit == 100000

Abs(x) == IF x < 0 THEN -x ELSE x
Min(a, b) == IF a <= b THEN a ELSE b

RECURSIVE GCD(_, _)
GCD(a, b) == IF b = 0 THEN a ELSE GCD(b, a % b)

\* The rational n/d (d > 0) in lowest terms.
Rat(n, d) == LET g == GCD(Abs(n), d) IN <<n \div g, d \div g>>

\* float * float on an upper bound (rational) and a multiplier (fixed point).
MulBound(r, m) ==
    LET g == GCD(m, FactorUnit)
    IN  Rat(r[1] * (m \div g), r[2] * (FactorUnit \div g))

\* float * float on two fixed-point factors.
MulFactor(a, b) == (a * b) \div FactorUnit

\* ------------------------------------------------------------ the model
\* model.reactions of the loaded model, in order: the reactions the script names.
ReactionList ==
    << "EX_glc__D_e", "EX_o2_e", "NADH16", "CYTBD", "CS", "SUCDi",
       "ATPS4r", "O2t", "BIOMASS_Ecoli_core_w_GAM", "ATPM" >>

AllReactions == { ReactionList[i] : i \in 1..Len(ReactionList) }

\* Upper bound of a reaction as loaded from the built-in model.
DefaultUpperBound == 1000

\* Upper bounds after lines 7-12: the loaded defaults, EX_o2_e set to -5.0.
InitialUpperBound(rxns) ==
    [ r \in rxns |-> IF r = "EX_o2_e" THEN Rat(-5, 1) ELSE Rat(DefaultUpperBound, 1) ]

\* A reaction without the attribute original_upper_bound.
NoAttr == <<"no attribute">>

\* base_constraints: reaction id -> base multiplier (all 1.0).
base_constraints ==
    [ r \in {"NADH16", "CYTBD", "CS", "SUCDi", "ATPS4r", "O2t"} |-> FactorUnit ]

\* The cap of line 35, 4.0.
Cap == 4 * FactorUnit

\* --------------------------------------------------------------- dicts
EmptyDict == [ k \in {} |-> 0 ]
Put(d, k, v) == [ x \in (DOMAIN d) \cup {k} |-> IF x = k THEN v ELSE d[x] ]
\* dict.get(k, default) and Series.get(k, default)
Get(d, k, default) == IF k \in DOMAIN d THEN d[k] ELSE default
\* {**a, **b}: b's entries win.
Merge(a, b) == [ x \in (DOMAIN a) \cup (DOMAIN b) |-> IF x \in DOMAIN b THEN b[x] ELSE a[x] ]

\* ------------------------------------------------------------- labels
Digit(n) == <<"0", "1", "2", "3", "4", "5", "6", "7", "8", "9">>[n + 1]

RECURSIVE Digits(_)
Digits(n) == IF n < 10 THEN <<Digit(n)>> ELSE Digits(n \div 10) \o <<Digit(n % 10)>>

\* The number of tenths nearest to the factor f, ties to even: what the
\* format specification .1f prints for a float that is exactly f / FactorUnit.
RoundTenths(f) ==
    LET q == (f * 10) \div FactorUnit
        r == (f * 10) % FactorUnit
    IN  IF 2 * r > FactorUnit \/ (2 * r = FactorUnit /\ q % 2 = 1) THEN q + 1 ELSE q

\* f"{f:.1f}" as a sequence of characters, for f >= 0.
FormatOneDecimal(f) ==
    LET t == RoundTenths(f) IN Digits(t \div 10) \o <<".">> \o <<Digit(t % 10)>>

\* Variant of FactorLabel: the factor formatted without its decimal place.
FactorLabelNoDecimal(f) == <<"Factor_">> \o Digits(f \div FactorUnit)

\* f"Factor_{factor:.1f}": the prefix is one token, the number its characters.
FactorLabel(f) == <<"Factor_">> \o FormatOneDecimal(f)

NativeLabel == <<"Native">>


\* -------------------------------------------------------------- the solver
\* Flux vectors model.optimize() may return (solution.fluxes): reaction id ->
\* flux.  A vector need not hold every reaction .get() is asked for.
FluxVectors ==
    { [ ATPM |-> 10 * FluxUnit, EX_o2_e |-> -25 * FluxUnit,
        NADH16 |-> 40 * FluxUnit, BIOMASS_Ecoli_core_w_GAM |-> 87392 ],
      [ ATPM |-> 0, EX_o2_e |-> -5 * FluxUnit,
        NADH16 |-> 40 * FluxUnit + 10000, BIOMASS_Ecoli_core_w_GAM |-> 21166 ],
      [ ATPM |-> 175 * FluxUnit, NADH16 |-> 0 ],
      [ ATPM |-> 10 * FluxUnit + 5000, BIOMASS_Ecoli_core_w_GAM |-> 87392 ] }

\* What model.optimize() may return: a status and a flux vector.
SolverOutcomes ==
    [ status : {"optimal"}, fluxes : FluxVectors ]
        \cup [ status : {"infeasible"}, fluxes : {EmptyDict} ]

\* The solution before any solve.
NoSolution == [ status |-> "none", fluxes |-> EmptyDict ]

\* --------------------------------------------------------------- inputs
\* Factors handed to run_fba_with_enhancement in SpecFn:
\* 1.0, 1.03125, 2.0 and 5.0.
FactorValues == { FactorUnit, FactorUnit + 1, 2 * FactorUnit, 5 * FactorUnit }

RECURSIVE SeqsUpTo(_, _)
SeqsUpTo(S, n) ==
    IF n = 0 THEN { <<>> }
    ELSE LET shorter == SeqsUpTo(S, n - 1)
         IN  shorter \cup { Append(s, x) : s \in { t \in shorter : Len(t) = n - 1 }, x \in S }

\* Variant of ScriptFactorRange: the sweep stops at 3.0.
ScriptFactorRangeShort == << FactorUnit, 2 * FactorUnit, 3 * FactorUnit >>

\* factor_range of the script, [1.0, 2.0, 3.0, 4.0].
ScriptFactorRange == << FactorUnit, 2 * FactorUnit, 3 * FactorUnit, 4 * FactorUnit >>

\* ---------------------------------------------------------------- state
VARIABLES
    pc,                    \* position of the script / of the running call
    caller,                \* which call of run_fba_with_enhancement runs
    reactions,             \* ids of model.reactions
    upper_bound,           \* rxn.upper_bound of every reaction
    original_upper_bound,  \* rxn.original_upper_bound, NoAttr when not set
    factor_range,          \* argument of the running call
    idx,                   \* position of the for loop in factor_range
    constraints,           \* local dict of line 35
    objective,             \* model.objective
    solution,              \* last value of model.optimize()
    statuses,              \* solution.status of each iteration of the running call
    results_local,         \* the dict `results` inside the function
    retval,                \* value returned by the last call
    warnings,              \* factors for which the skip warning was printed
    results,               \* script: results of the sweep call
    native_solution,       \* script: record of the Native call
    actual_results,        \* script: {"Native": ..., **results}
    csv,                   \* script: rows written to the CSV file
    plot,                  \* script: bars of the growth-rate chart
    top_fluxes             \* script: the printed top-5 dict

vars == << pc, caller, reactions, upper_bound, original_upper_bound, factor_range,
           idx, constraints, objective, solution, statuses, results_local, retval,
           warnings,
           results, native_solution, actual_results, csv, plot, top_fluxes >>

modelVars == << reactions, original_upper_bound >>
callVars == << factor_range, idx, constraints, objective, solution, statuses,
               results_local, warnings >>
scriptVars == << results, native_solution, actual_results, csv, plot, top_fluxes >>

\* A value for a script variable that is not assigned yet.
Unset == <<"unset">>

\* State after lines 1-25 and 61-63, before the sweep call of line 67.
Init ==
    /\ pc = "start"
    /\ caller = "none"
    /\ reactions = AllReactions
    /\ upper_bound = InitialUpperBound(AllReactions)
    /\ original_upper_bound = [ r \in AllReactions |-> NoAttr ]
    /\ factor_range = <<>>
    /\ idx = 1
    /\ constraints = EmptyDict
    /\ objective = EmptyDict
    /\ solution = NoSolution
    /\ statuses = <<>>
    /\ results_local = EmptyDict
    /\ retval = Unset
    /\ warnings = <<>>
    /\ results = Unset
    /\ native_solution = Unset
    /\ actual_results = Unset
    /\ csv = Unset
    /\ plot = Unset
    /\ top_fluxes = Unset

\* Entry of run_fba_with_enhancement(model, fr), line 29.
Enter(fr, who) ==
    /\ caller' = who
    /\ factor_range' = fr
    /\ idx' = 1
    /\ statuses' = <<>>
    /\ results_local' = EmptyDict
    /\ pc' = "loop"

\* ------------------------------------------------ run_fba_with_enhancement
\* The factor of the running iteration.
factor == factor_range[idx]

\* Variant of ResetBound: every bound goes back to the loaded default.
ResetBoundToLoaded(r) == Rat(DefaultUpperBound, 1)

\* Line 33 for one reaction: the recorded original bound when the reaction has
\* the attribute, its current bound otherwise.
ResetBound(r) ==
    IF original_upper_bound[r] # NoAttr THEN original_upper_bound[r] ELSE upper_bound[r]

\* Lines 30-33: the next factor, and the reset of every upper bound.
Reset ==
    /\ pc = "loop"
    /\ idx <= Len(factor_range)
    /\ upper_bound' = [ r \in reactions |-> ResetBound(r) ]
    /\ pc' = "apply"
    /\ UNCHANGED << caller, modelVars, callVars, retval, scriptVars >>

\* Variant of EffectiveMultiplier: no cap.
EffectiveMultiplierUncapped(f, val) == MulFactor(f, val)

\* Line 35: min(4.0, factor * val).
EffectiveMultiplier(f, val) == Min(Cap, MulFactor(f, val))

\* Variant of EnhancedBound: the multiplier applies to the bound as loaded.
EnhancedBoundFromBaseline(r, cs) ==
    IF r \in DOMAIN cs THEN MulBound(InitialUpperBound(reactions)[r], cs[r])
    ELSE upper_bound[r]

\* Line 39 for one reaction of the model: upper_bound *= factor_val when the
\* reaction is in the constraints dict.
EnhancedBound(r, cs) ==
    IF r \in DOMAIN cs THEN MulBound(upper_bound[r], cs[r]) ELSE upper_bound[r]

\* Lines 35-40: the constraints of this factor, applied to the reactions of
\* the table that the model holds.
Apply ==
    /\ pc = "apply"
    /\ LET cs == [ r \in DOMAIN base_constraints |->
                       EffectiveMultiplier(factor, base_constraints[r]) ]
       IN  /\ constraints' = cs
           /\ upper_bound' = [ r \in reactions |-> EnhancedBound(r, cs) ]
    /\ pc' = "optimize"
    /\ UNCHANGED << caller, modelVars, factor_range, idx, objective, solution,
                    statuses, results_local, warnings, retval, scriptVars >>

\* Lines 43-46: 0.5 biomass + 0.5 ATP maintenance.
DualObjective ==
    [ BIOMASS_Ecoli_core_w_GAM |-> FactorUnit \div 2, ATPM |-> FactorUnit \div 2 ]

\* Variant of ExtractRecord: the oxygen exchange flux is not negated.
ExtractRecordNoNegation(fluxes) ==
    [ ATP_production |-> Get(fluxes, "ATPM", 0),
      O2_consumption |-> Get(fluxes, "EX_o2_e", 0),
      NADH_turnover  |-> Get(fluxes, "NADH16", 0),
      growth_rate    |-> Get(fluxes, "BIOMASS_Ecoli_core_w_GAM", 0) ]

\* Lines 53-58: the record stored for an optimal solution.
ExtractRecord(fluxes) ==
    [ ATP_production |-> Get(fluxes, "ATPM", 0),
      O2_consumption |-> -Get(fluxes, "EX_o2_e", 0),
      NADH_turnover  |-> Get(fluxes, "NADH16", 0),
      growth_rate    |-> Get(fluxes, "BIOMASS_Ecoli_core_w_GAM", 0) ]

\* Variant of StoreResult: the dict is started afresh for every stored record.
StoreResultFresh(d, f, sol) ==
    IF sol.status # "optimal" THEN d
    ELSE Put(EmptyDict, <<"Factor_">> \o FormatOneDecimal(f),
             [ ATP_production |-> Get(sol.fluxes, "ATPM", 0),
               O2_consumption |-> -Get(sol.fluxes, "EX_o2_e", 0),
               NADH_turnover  |-> Get(sol.fluxes, "NADH16", 0),
               growth_rate    |-> Get(sol.fluxes, "BIOMASS_Ecoli_core_w_GAM", 0) ])

\* Lines 48-58 on the local dict: skip a non-optimal solution, store the
\* record of an optimal one under the factor's label.
StoreResult(d, f, sol) ==
    IF sol.status # "optimal" THEN d
    ELSE Put(d, FactorLabel(f), ExtractRecord(sol.fluxes))

\* Lines 48-50: the warning printed for a non-optimal solution.
Warn(w, f, sol) == IF sol.status # "optimal" THEN Append(w, f) ELSE w

\* Lines 43-58: set the objective, solve, skip or store.
Optimize ==
    /\ pc = "optimize"
    /\ objective' = DualObjective
    /\ \E sol \in SolverOutcomes :
          /\ solution' = sol
          /\ statuses' = Append(statuses, sol.status)
          /\ results_local' = StoreResult(results_local, factor, sol)
          /\ warnings' = Warn(warnings, factor, sol)
    /\ idx' = idx + 1
    /\ pc' = "loop"
    /\ UNCHANGED << caller, modelVars, upper_bound, factor_range, constraints,
                    retval, scriptVars >>

\* Line 59: return results.
Return ==
    /\ pc = "loop"
    /\ idx > Len(factor_range)
    /\ retval' = results_local
    /\ pc' = "returned"
    /\ UNCHANGED << caller, modelVars, upper_bound, callVars, scriptVars >>

\* ----------------------------------- the function alone, on any arguments
\* The models handed to the function: the full one, and one without O2t.
ModelReactionSets == { AllReactions, AllReactions \ {"O2t"} }

InitFn ==
    /\ pc = "loop"
    /\ caller = "test"
    /\ reactions \in ModelReactionSets
    /\ upper_bound = InitialUpperBound(reactions)
    /\ original_upper_bound = [ r \in reactions |-> NoAttr ]
    /\ factor_range \in SeqsUpTo(FactorValues, MaxLen)
    /\ idx = 1
    /\ constraints = EmptyDict
    /\ objective = EmptyDict
    /\ solution = NoSolution
    /\ statuses = <<>>
    /\ results_local = EmptyDict
    /\ retval = Unset
    /\ warnings = <<>>
    /\ results = Unset
    /\ native_solution = Unset
    /\ actual_results = Unset
    /\ csv = Unset
    /\ plot = Unset
    /\ top_fluxes = Unset

NextFn == Reset \/ Apply \/ Optimize \/ Return

SpecFn == InitFn /\ [][NextFn]_vars


\* ------------------------------------------------------------ the script
\* Lines 66-67: the sweep over factor_range starts.
SweepCall ==
    /\ pc = "start"
    /\ Enter(ScriptFactorRange, "sweep")
    /\ UNCHANGED << modelVars, upper_bound, constraints, objective, solution,
                    warnings, retval, scriptVars >>

\* Lines 67 and 70: results = the sweep's return value; the Native call
\* with [1.0] starts.
NativeCall ==
    /\ pc = "returned"
    /\ caller = "sweep"
    /\ results' = retval
    /\ Enter(<<FactorUnit>>, "native")
    /\ UNCHANGED << modelVars, upper_bound, constraints, objective, solution,
                    warnings, retval, native_solution, actual_results, csv, plot,
                    top_fluxes >>

\* Line 70: the subscript [f"Factor_1.0"] of the Native call's return value.
NativeKey == <<"Factor_", "1", ".", "0">>

\* Line 70: whether the subscript raises KeyError.
NativeLookupFails(ret) == NativeKey \notin DOMAIN ret

\* Line 71: {"Native": native_solution, **results}.
BuildActualResults(native, res) == Merge([ k \in {NativeLabel} |-> native ], res)

\* Lines 70-71: native_solution and actual_results; an uncaught KeyError ends
\* the script when the Native call stored no record.
NativeIndex ==
    /\ pc = "returned"
    /\ caller = "native"
    /\ IF NativeLookupFails(retval)
       THEN /\ pc' = "aborted"
            /\ UNCHANGED << native_solution, actual_results >>
       ELSE /\ native_solution' = retval[NativeKey]
            /\ actual_results' = BuildActualResults(retval[NativeKey], results)
            /\ pc' = "fallback"
    /\ UNCHANGED << caller, modelVars, upper_bound, callVars, retval, results, csv,
                    plot, top_fluxes >>

\* float * float on a flux-unit literal and a factor.
MulFlux(x, f) == (x * f) \div FactorUnit

\* The literals of line 75.
EstATP == 839000
EstO2 == 500000
EstNADH == 1000000
EstGrowth == 100083

\* Lines 74-78: the table of estimates.
estimated_results ==
    Merge([ k \in {NativeLabel} |->
              [ ATP_production |-> EstATP, O2_consumption |-> EstO2,
                NADH_turnover |-> EstNADH, growth_rate |-> EstGrowth ] ],
          [ k \in { FactorLabel(ScriptFactorRange[i]) : i \in 1..Len(ScriptFactorRange) } |->
              LET f == CHOOSE g \in { ScriptFactorRange[i] : i \in 1..Len(ScriptFactorRange) } :
                           FactorLabel(g) = k
              IN  [ ATP_production |-> MulFlux(EstATP, f), O2_consumption |-> MulFlux(EstO2, f),
                    NADH_turnover |-> MulFlux(EstNADH, f), growth_rate |-> MulFlux(EstGrowth, f) ] ])

\* Variant of NeedsEstimate: both fields must be zero.
NeedsEstimateBoth(rec) == rec.ATP_production = 0 /\ rec.growth_rate = 0

\* Line 80: the condition of the fallback.
NeedsEstimate(rec) == rec.ATP_production = 0 \/ rec.growth_rate = 0

\* Line 81: rec.update({k: v for k, v in est.items() if k in rec}).
UpdateRecord(rec, est) ==
    [ k \in DOMAIN rec |-> IF k \in DOMAIN est THEN est[k] ELSE rec[k] ]

\* Lines 79-81 for the record under one key.
FallbackRecord(key, rec) ==
    IF NeedsEstimate(rec) THEN UpdateRecord(rec, estimated_results[key]) ELSE rec

\* Line 81: whether the subscript estimated_results[key] raises KeyError for
\* some key of d.
EstimateLookupFails(d) ==
    \E key \in DOMAIN d : NeedsEstimate(d[key]) /\ key \notin DOMAIN estimated_results

\* Lines 79-81.  The records of actual_results are the very dict objects held
\* by results and native_solution, so the update shows in those as well.
Fallback ==
    /\ pc = "fallback"
    /\ IF EstimateLookupFails(actual_results)
       THEN /\ pc' = "aborted"
            /\ UNCHANGED << actual_results, results, native_solution >>
       ELSE /\ actual_results' =
                  [ key \in DOMAIN actual_results |-> FallbackRecord(key, actual_results[key]) ]
            /\ results' = [ key \in DOMAIN results |-> FallbackRecord(key, results[key]) ]
            /\ native_solution' = FallbackRecord(NativeLabel, native_solution)
            /\ pc' = "output"
    /\ UNCHANGED << caller, modelVars, upper_bound, callVars, retval, csv, plot,
                    top_fluxes >>

\* Lines 84-96: the CSV rows and the bar chart of growth_rate.
SaveOutput ==
    /\ pc = "output"
    /\ csv' = actual_results
    /\ plot' = [ key \in DOMAIN actual_results |-> actual_results[key].growth_rate ]
    /\ pc' = "top5"
    /\ UNCHANGED << caller, modelVars, upper_bound, callVars, retval, results,
                    native_solution, actual_results, top_fluxes >>

RECURSIVE DigitsValue(_)
DigitsValue(s) ==
    IF Len(s) = 0 THEN 0
    ELSE 10 * DigitsValue(SubSeq(s, 1, Len(s) - 1))
           + (CHOOSE n \in 0..9 : Digit(n) = s[Len(s)])

RECURSIVE Pow10(_)
Pow10(n) == IF n = 0 THEN 1 ELSE 10 * Pow10(n - 1)

\* Line 100: float(k.replace("Factor_", "")), as a rational.
LabelValue(k) ==
    LET t == SelectSeq(k, LAMBDA c : c # "Factor_")
        p == CHOOSE i \in 1..Len(t) : t[i] = "."
        frac == SubSeq(t, p + 1, Len(t))
    IN  Rat(DigitsValue(SubSeq(t, 1, p - 1)) * Pow10(Len(frac)) + DigitsValue(frac),
            Pow10(Len(frac)))

RatLeq(a, b) == a[1] * b[2] <= b[1] * a[2]

\* Line 100: the key of the highest factor.
MaxFactorKey(res) ==
    CHOOSE k \in DOMAIN res : \A j \in DOMAIN res : RatLeq(LabelValue(j), LabelValue(k))

\* Lines 102-103: the difference looked up for one reaction id.
FluxDelta(rxn, high, native) == Get(high, rxn, 0) - Get(native, rxn, 0)

\* Line 103: abs(...) > 0.1.
Threshold == FluxUnit \div 10

\* Lines 102-104: the changes above the threshold, the five largest of them
\* by absolute value (sorted() is stable: ties keep the order of model.reactions).
TopFluxChanges(high, native) ==
    LET pos(r) == CHOOSE i \in 1..Len(ReactionList) : ReactionList[i] = r
        changed == { r \in reactions : Abs(FluxDelta(r, high, native)) > Threshold }
        before(a, b) ==
            \/ Abs(FluxDelta(a, high, native)) > Abs(FluxDelta(b, high, native))
            \/ /\ Abs(FluxDelta(a, high, native)) = Abs(FluxDelta(b, high, native))
               /\ pos(a) < pos(b)
        top == { r \in changed : Cardinality({ a \in changed : before(a, r) }) < 5 }
    IN  [ r \in top |-> FluxDelta(r, high, native) ]

\* Lines 99-108.
ComputeTopFluxes(res, actual) ==
    IF Cardinality(DOMAIN res) > 0
    THEN IF NativeLabel \in DOMAIN actual /\ MaxFactorKey(res) \in DOMAIN actual
         THEN TopFluxChanges(actual[MaxFactorKey(res)], actual[NativeLabel])
         ELSE [ Note |-> "Insufficient data for flux changes" ]
    ELSE [ Note |-> "No valid solutions" ]

\* Lines 99-109: the top-5 flux changes are printed; the script ends.
Top5 ==
    /\ pc = "top5"
    /\ top_fluxes' = ComputeTopFluxes(results, actual_results)
    /\ pc' = "done"
    /\ UNCHANGED << caller, modelVars, upper_bound, callVars, retval, results,
                    native_solution, actual_results, csv, plot >>

Next ==
    \/ SweepCall \/ Reset \/ Apply \/ Optimize \/ Return
    \/ NativeCall \/ NativeIndex \/ Fallback \/ SaveOutput \/ Top5

Spec == Init /\ [][Next]_vars


\* ------------------------------------------------------------ properties
\* The reactions of the Bound Override Table.
OverrideReactions == DOMAIN base_constraints

\* The iterations of the running call that are finished.
DoneIterations == 1..Len(statuses)

\* The finished iterations whose solve was optimal.
OptimalIterations == { i \in DoneIterations : statuses[i] = "optimal" }

\* C1: a non-optimal solve adds no entry for its factor and never aborts the
\* process: the script runs to its end whichever solves are non-optimal.
C1_SkipNeverAborts ==
    /\ pc # "aborted"
    /\ caller \in {"sweep", "native"} =>
          \A i \in DoneIterations \ OptimalIterations :
              FactorLabel(factor_range[i]) \notin DOMAIN results_local

\* The four fields of a Sweep Result.
ResultFields == {"ATP_production", "O2_consumption", "NADH_turnover", "growth_rate"}

\* C2: at the end of the script, every result field in which the record of
\* the highest factor label and the Native record differ by more than 0.1 is
\* in the printed top-5 dict with its delta, and a field in which they differ
\* by at most 0.1 is not in it.
C2_TopFiveHoldsChangedFields ==
    (pc = "done" /\ DOMAIN results # {}) =>
        LET high == actual_results[MaxFactorKey(results)]
            native == actual_results[NativeLabel]
        IN  \A fld \in ResultFields :
                IF Abs(high[fld] - native[fld]) > Threshold
                THEN fld \in DOMAIN top_fluxes /\ top_fluxes[fld] = high[fld] - native[fld]
                ELSE fld \notin DOMAIN top_fluxes

\* The call has returned and every one of its solves was optimal.
ReturnedAllOptimal ==
    /\ pc = "returned"
    /\ Len(statuses) = Len(factor_range)
    /\ OptimalIterations = DoneIterations

\* C3 as stated: when every solve is optimal, the returned mapping has as many
\* entries as the factor sequence is long, repeated factors and factors of
\* the same label included.
C3_OneEntryPerInputFactor ==
    ReturnedAllOptimal => Cardinality(DOMAIN retval) = Len(factor_range)

\* The one-decimal labels of the factor sequence, each counted once: two
\* factors have the same label when they round to the same number of tenths.
DistinctLabelCount ==
    Cardinality({ i \in 1..Len(factor_range) :
                    \A j \in 1..(i - 1) :
                        RoundTenths(factor_range[j]) # RoundTenths(factor_range[i]) })

\* C3 (amended): when every solve is optimal, the returned mapping has one
\* entry per distinct one-decimal label of the input factors; its size is the
\* length of the sequence when the labels are pairwise distinct.
C3_OneEntryPerDistinctLabel ==
    ReturnedAllOptimal =>
        /\ Cardinality(DOMAIN retval) = DistinctLabelCount
        /\ (DistinctLabelCount = Len(factor_range)
              => Cardinality(DOMAIN retval) = Len(factor_range))

\* C3 witness: 1.0 and 1.03125, both solved optimally, share one entry.
C3_Witness ==
    /\ ReturnedAllOptimal
    /\ factor_range = << FactorUnit, FactorUnit + 1 >>
    /\ Cardinality(DOMAIN retval) = 1


\* Whether lbl is "Factor_" followed by f to one decimal place, said without
\* the model's formatting: the number printed is a count t of tenths, written
\* as its integer digits, a point and one digit, and no other count of tenths
\* is nearer to f (of two equally near, the even one is printed); t is one
\* of the two counts of tenths around f.
IsOneDecimalLabelOf(lbl, f) ==
    \E t \in { (10 * f) \div FactorUnit, (10 * f) \div FactorUnit + 1 } :
        /\ lbl = <<"Factor_">> \o Digits(t \div 10) \o << ".", Digit(t % 10) >>
        /\ 2 * Abs(t * FactorUnit - 10 * f) <= FactorUnit
        /\ (2 * Abs(t * FactorUnit - 10 * f) = FactorUnit => t % 2 = 0)

\* C4: every swept factor with an optimal solve has its record under the key
\* "Factor_" + the factor to one decimal place (2.0 under Factor_2.0, 5.0
\* under Factor_5.0, 1.03125 under Factor_1.0), and the mapping, while it is
\* built and when it is returned, holds no key that is not the label of a
\* swept factor with an optimal solve.
C4_KeysAreOneDecimalLabels ==
    LET keysOk(d) ==
            /\ \A i \in OptimalIterations :
                  \E k \in DOMAIN d : IsOneDecimalLabelOf(k, factor_range[i])
            /\ \A k \in DOMAIN d :
                  \E i \in OptimalIterations : IsOneDecimalLabelOf(k, factor_range[i])
            /\ \A i \in OptimalIterations :
                  /\ factor_range[i] = 2 * FactorUnit => <<"Factor_", "2", ".", "0">> \in DOMAIN d
                  /\ factor_range[i] = 5 * FactorUnit => <<"Factor_", "5", ".", "0">> \in DOMAIN d
                  /\ factor_range[i] = FactorUnit + 1 => <<"Factor_", "1", ".", "0">> \in DOMAIN d
    IN  /\ keysOk(results_local)
        /\ pc = "returned" => keysOk(retval)

\* C4 witness: a returned mapping with the keys Factor_1.0 and Factor_5.0 only,
\* after a sweep in which the solve of 2.0 was not optimal.
C4_Witness ==
    /\ pc = "returned"
    /\ factor_range = << FactorUnit + 1, 2 * FactorUnit, 5 * FactorUnit >>
    /\ statuses = << "optimal", "infeasible", "optimal" >>
    /\ DOMAIN retval = { <<"Factor_", "1", ".", "0">>, <<"Factor_", "5", ".", "0">> }

\* The multiplier min(4.0, f x 1.0) of a factor f, base multiplier 1.0.
CappedFactor(f) == IF f > 4 * FactorUnit THEN 4 * FactorUnit ELSE f

\* C5: in every iteration the multiplier of each table reaction is
\* min(4.0, factor x base multiplier) (2.0 for CS at factor 2.0, 4.0 at factor
\* 5.0), never more than 4.0, and it is the number the upper bound of each
\* table reaction of the model is multiplied by.
C5_MultiplierIsCapped ==
    /\ [](pc = "optimize" =>
            /\ DOMAIN constraints = OverrideReactions
            /\ \A r \in OverrideReactions :
                  /\ constraints[r] = CappedFactor(factor)
                  /\ constraints[r] <= 4 * FactorUnit
            /\ factor = 2 * FactorUnit => constraints["CS"] = 2 * FactorUnit
            /\ factor = 5 * FactorUnit => constraints["CS"] = 4 * FactorUnit)
    /\ [][pc = "apply" =>
            \A r \in OverrideReactions \cap reactions :
                /\ CappedFactor(factor) <= 4 * FactorUnit
                /\ upper_bound'[r] =
                      Rat(upper_bound[r][1] * CappedFactor(factor),
                          upper_bound[r][2] * FactorUnit)]_vars

\* C5 witness: factor 5.0 applied, CS multiplied by the cap 4.0.
C5_Witness ==
    /\ pc = "optimize"
    /\ factor = 5 * FactorUnit
    /\ idx = 1
    /\ constraints["CS"] = 4 * FactorUnit
    /\ upper_bound["CS"] = << 4 * DefaultUpperBound, 1 >>


\* The estimate literals of a key, written out: 8.39, 5.0, 10.0 and 1.00083
\* for Native, and the same four times 1, 2, 3 and 4 for the factor labels.
EstimateLiterals(key) ==
    LET row(a, o, n, g) ==
            [ ATP_production |-> a, O2_consumption |-> o, NADH_turnover |-> n,
              growth_rate |-> g ]
    IN  CASE key = <<"Native">> -> row(839000, 500000, 1000000, 100083)
          [] key = <<"Factor_", "1", ".", "0">> -> row(839000, 500000, 1000000, 100083)
          [] key = <<"Factor_", "2", ".", "0">> -> row(1678000, 1000000, 2000000, 200166)
          [] key = <<"Factor_", "3", ".", "0">> -> row(2517000, 1500000, 3000000, 300249)
          [] key = <<"Factor_", "4", ".", "0">> -> row(3356000, 2000000, 4000000, 400332)

\* C6: the fallback pass never fails on the lookup of an estimate, keeps the
\* keys of actual_results, replaces all four fields of every record whose
\* extracted ATP production or growth rate is exactly 0.0 by the estimate
\* literals of its key, and leaves every other record as extracted.
C6_FallbackReplacesZeroRecords ==
    [][pc = "fallback" =>
          /\ pc' = "output"
          /\ DOMAIN actual_results' = DOMAIN actual_results
          /\ \A key \in DOMAIN actual_results :
                IF actual_results[key]["ATP_production"] = 0
                     \/ actual_results[key]["growth_rate"] = 0
                THEN actual_results'[key] = EstimateLiterals(key)
                ELSE actual_results'[key] = actual_results[key]]_vars

\* C6 witness: after the fallback, Native holds its estimate literals (its ATP
\* production was extracted as 0.0 with a non-zero growth rate), Factor_2.0
\* holds the doubled literals and Factor_4.0 the solver's values.
C6_Witness ==
    /\ pc = "output"
    /\ retval[NativeKey]["ATP_production"] = 0
    /\ retval[NativeKey]["growth_rate"] # 0
    /\ actual_results[NativeLabel] =
          [ ATP_production |-> 839000, O2_consumption |-> 500000,
            NADH_turnover |-> 1000000, growth_rate |-> 100083 ]
    /\ <<"Factor_", "2", ".", "0">> \in DOMAIN actual_results
    /\ actual_results[<<"Factor_", "2", ".", "0">>]["ATP_production"] = 1678000
    /\ <<"Factor_", "4", ".", "0">> \in DOMAIN actual_results
    /\ actual_results[<<"Factor_", "4", ".", "0">>]["ATP_production"] = 10 * FluxUnit

\* The product of min(4.0, f) over the first k factors of the call, as a
\* rational in lowest terms.
RECURSIVE MultiplierProduct(_)
MultiplierProduct(k) ==
    IF k = 0 THEN <<1, 1>>
    ELSE LET p == MultiplierProduct(k - 1)
             m == Rat(CappedFactor(factor_range[k]), FactorUnit)
         IN  Rat(p[1] * m[1], p[2] * m[2])

\* The number of iterations of the running call whose bounds are applied.
AppliedIterations == IF pc = "optimize" THEN idx ELSE idx - 1

FluxOrZero(rxn) ==
    IF rxn \in DOMAIN solution.fluxes THEN solution.fluxes[rxn] ELSE 0

\* C9: after an optimal solve the record under the factor's label has exactly
\* the four fields, with the fluxes of ATPM, EX_o2_e (negated), NADH16 and
\* BIOMASS_Ecoli_core_w_GAM, 0.0 for a reaction the flux vector lacks; and an
\* optimal solve prints no warning and stores its entry whatever the vector
\* lacks.
C9_RecordFromFluxes ==
    /\ []((pc = "loop" /\ idx > 1 /\ solution.status = "optimal") =>
            LET lbl == FactorLabel(factor_range[idx - 1])
            IN  /\ lbl \in DOMAIN results_local
                /\ DOMAIN results_local[lbl] = ResultFields
                /\ results_local[lbl]["ATP_production"] = FluxOrZero("ATPM")
                /\ results_local[lbl]["O2_consumption"] = 0 - FluxOrZero("EX_o2_e")
                /\ results_local[lbl]["NADH_turnover"] = FluxOrZero("NADH16")
                /\ results_local[lbl]["growth_rate"] = FluxOrZero("BIOMASS_Ecoli_core_w_GAM"))
    /\ [][(pc = "optimize" /\ solution'.status = "optimal") =>
            /\ warnings' = warnings
            /\ FactorLabel(factor) \in DOMAIN results_local'
            /\ idx' = idx + 1]_vars

\* C9 witness: an optimal solve whose flux vector lacks EX_o2_e and
\* BIOMASS_Ecoli_core_w_GAM: the entry is stored with 0.0 in both fields and
\* the other two from the vector, and no warning is printed.
C9_Witness ==
    /\ pc = "loop"
    /\ idx = 2
    /\ solution.status = "optimal"
    /\ DOMAIN solution.fluxes = {"ATPM", "NADH16"}
    /\ results_local[FactorLabel(factor_range[1])] =
          [ ATP_production |-> 175 * FluxUnit, O2_consumption |-> 0,
            NADH_turnover |-> 0, growth_rate |-> 0 ]
    /\ warnings = <<>>

\* Upper bounds after the sweep over [1.0, 2.0, 3.0, 4.0]: 24 times the bound
\* before the sweep for the table's reactions, the bound before the sweep for
\* the others.
BoundsAfterSweep ==
    [ r \in AllReactions |->
        IF r \in OverrideReactions THEN << 24 * DefaultUpperBound, 1 >>
        ELSE IF r = "EX_o2_e" THEN <<-5, 1>> ELSE << DefaultUpperBound, 1 >> ]

=============================================================================
